---- MODULE Spec2Model ----
(***************************************************************************)
(* Model of the Java-agent JMX configuration converter of nri-jmx:         *)
(* getEventName, reduceJavaAgentYaml, buildCollectionDefinition,           *)
(* parseJavaAgentJmxDefinition, outputOHIJmxFile and the convert branch of *)
(* main.                                                                   *)
(*                                                                         *)
(* A Go string is a sequence of one-character strings, so that Split,      *)
(* TrimSpace, Replace and the regular expression are computed character by *)
(* character.  A call that can end in a run-time panic (index out of       *)
(* range) returns a record [ok, val]; ok = FALSE is the panic.             *)
(***************************************************************************)
EXTENDS Integers, Sequences, FiniteSets, TLC

VARIABLES
    \* getEventName called on its own
    gen,              \* the arguments [oldName, rootMetricName, query]
    eventName,        \* [called, ok, val]: the call's outcome
    \* reduceJavaAgentYaml, one iteration of its outer loop per step
    m,                \* the mainDefinitionParser [Name, JMX]
    idx,              \* number of m.JMX entries the loop has taken up
    thisDomainMap,    \* the map being built
    status,           \* "idle", "running", "returned", "panicked"
    \* main, convert mode
    CollectionFiles,  \* args.CollectionFiles
    fs,               \* the files on disk: path -> [readable, def]
    pc,               \* position in main
    fileIdx,          \* index of oldJmxFile in oldJmxFiles
    oldJmxFileDefinition,
    newReduction,
    newerCollection,
    newCollection,
    stdout,           \* what outputOHIJmxFile has printed, in order
    exitCode,         \* process exit status, -1 while running
    loadLog,          \* history: the indices parseJavaAgentYaml was called for
    marshalFailed     \* history: yaml.Marshal has returned an error

vars == <<gen, eventName, m, idx, thisDomainMap, status, CollectionFiles, fs, pc,
          fileIdx, oldJmxFileDefinition, newReduction, newerCollection,
          newCollection, stdout, exitCode, loadLog, marshalFailed>>

resolveVars == <<gen, eventName>>
reduceVars == <<m, idx, thisDomainMap, status>>
mainVars == <<CollectionFiles, fs, pc, fileIdx, oldJmxFileDefinition, newReduction,
              newerCollection, newCollection, stdout, exitCode, loadLog,
              marshalFailed>>

----------------------------------------------------------------------------
(* Strings *)

\* the strings the code names
defaultEventType == <<"J", "M", "X", "S", "a", "m", "p", "l", "e">>
sep == <<"_">>
Simple == <<"s", "i", "m", "p", "l", "e">>
MonotonicallyIncreasing ==
    <<"m", "o", "n", "o", "t", "o", "n", "i", "c", "a", "l", "l", "y", "_",
      "i", "n", "c", "r", "e", "a", "s", "i", "n", "g">>

\* \w of Go's regexp: [0-9A-Za-z_]
WordChars ==
    {"a", "b", "c", "d", "e", "f", "g", "h", "i", "j", "k", "l", "m", "n", "o",
     "p", "q", "r", "s", "t", "u", "v", "w", "x", "y", "z",
     "A", "B", "C", "D", "E", "F", "G", "H", "I", "J", "K", "L", "M", "N", "O",
     "P", "Q", "R", "S", "T", "U", "V", "W", "X", "Y", "Z",
     "0", "1", "2", "3", "4", "5", "6", "7", "8", "9", "_"}

\* unicode.IsSpace, on the characters the model uses
IsSpace(c) == c \in {" ", "\t", "\n", "\r"}

Panic == [ok |-> FALSE, val |-> <<>>]
Ok(v) == [ok |-> TRUE, val |-> v]

\* strings.Index for a one-character separator: first position, 0 when absent
IndexOf(s, c) ==
    IF \E i \in 1..Len(s) : s[i] = c
    THEN CHOOSE i \in 1..Len(s) : s[i] = c /\ \A j \in 1..(i - 1) : s[j] # c
    ELSE 0

\* strings.Split(s, c): every piece between separators; <<s>> when c is absent
RECURSIVE Split(_, _)
Split(s, c) ==
    LET i == IndexOf(s, c)
    IN  IF i = 0 THEN <<s>>
        ELSE <<SubSeq(s, 1, i - 1)>> \o Split(SubSeq(s, i + 1, Len(s)), c)

RECURSIVE TrimLeft(_)
TrimLeft(s) == IF s # <<>> /\ IsSpace(s[1]) THEN TrimLeft(Tail(s)) ELSE s

RECURSIVE TrimRight(_)
TrimRight(s) ==
    IF s # <<>> /\ IsSpace(s[Len(s)]) THEN TrimRight(SubSeq(s, 1, Len(s) - 1)) ELSE s

\* strings.TrimSpace
TrimSpace(s) == TrimRight(TrimLeft(s))

HasPrefix(s, p) == Len(p) <= Len(s) /\ SubSeq(s, 1, Len(p)) = p

\* strings.Replace(s, old, new, -1) for a non-empty old: every non-overlapping
\* occurrence, left to right
RECURSIVE Replace(_, _, _)
Replace(s, old, new) ==
    IF s = <<>> THEN <<>>
    ELSE IF HasPrefix(s, old)
         THEN new \o Replace(SubSeq(s, Len(old) + 1, Len(s)), old, new)
         ELSE <<s[1]>> \o Replace(Tail(s), old, new)

\* number of leading \w characters of s
RECURSIVE WordRun(_)
WordRun(s) == IF s # <<>> /\ s[1] \in WordChars THEN 1 + WordRun(Tail(s)) ELSE 0

\* length of the match of {\w+} anchored at the start of s, 0 when none.  \w+
\* is greedy and never takes a brace, so the match is the maximal run.
MatchAt(s) ==
    IF s # <<>> /\ s[1] = "{"
    THEN LET n == WordRun(Tail(s))
         IN  IF n >= 1 /\ Len(s) >= n + 2 /\ s[n + 2] = "}" THEN n + 2 ELSE 0
    ELSE 0

\* objNameRegex.FindAllString(s, -1): leftmost non-overlapping matches
RECURSIVE FindAllString(_)
FindAllString(s) ==
    IF s = <<>> THEN <<>>
    ELSE LET n == MatchAt(s)
         IN  IF n > 0
             THEN <<SubSeq(s, 1, n)>> \o FindAllString(SubSeq(s, n + 1, Len(s)))
             ELSE FindAllString(Tail(s))

\* objNameRegex.MatchString
MatchString(s) == FindAllString(s) # <<>>

----------------------------------------------------------------------------
(* convertMetricType, makeInsightsCompliantEventType, getEventName *)

convertMetricType(metrictype) ==
    LET t == TrimSpace(metrictype)
    IN  IF t = Simple THEN "gauge"
        ELSE IF t = MonotonicallyIncreasing THEN "delta"
        ELSE "gauge"

makeInsightsCompliantEventType(inString) ==
    Replace(Replace(inString, <<" ">>, <<"_">>), <<"/">>, <<":">>)

EmptyMap == [k \in {} |-> <<>>]
MapPut(f, k, v) == [x \in (DOMAIN f) \cup {k} |-> IF x = k THEN v ELSE f[x]]

\* the loop filling queryMap: querySplit[1] panics when the pair has no '='
RECURSIVE BuildQueryMap(_, _)
BuildQueryMap(queryStrings, queryMap) ==
    IF queryStrings = <<>> THEN Ok(queryMap)
    ELSE LET querySplit == Split(Head(queryStrings), "=")
         IN  IF Len(querySplit) < 2 THEN Panic
             ELSE BuildQueryMap(Tail(queryStrings),
                                MapPut(queryMap, querySplit[1], querySplit[2]))

\* the loop over matchedObjs: each replacement works on the string the earlier
\* ones have left
RECURSIVE SubstituteObjs(_, _, _)
SubstituteObjs(rootMetricName, matchedObjs, queryMap) ==
    IF matchedObjs = <<>> THEN rootMetricName
    ELSE LET thisObj == Head(matchedObjs)
             testObj == SubSeq(thisObj, 2, Len(thisObj) - 1)
         IN  SubstituteObjs(
                 IF testObj \in DOMAIN queryMap
                 THEN Replace(rootMetricName, thisObj, queryMap[testObj])
                 ELSE rootMetricName,
                 Tail(matchedObjs), queryMap)

getEventName(oldName0, rootMetricName, query) ==
    LET oldName == IF oldName0 = <<>> THEN defaultEventType ELSE oldName0
    IN  IF rootMetricName = <<>> THEN Ok(makeInsightsCompliantEventType(oldName))
        ELSE IF MatchString(rootMetricName)
             THEN LET qm == BuildQueryMap(Split(query, ","), EmptyMap)
                  IN  IF ~qm.ok THEN Panic
                      ELSE Ok(makeInsightsCompliantEventType(
                               oldName \o sep \o
                               SubstituteObjs(rootMetricName,
                                              FindAllString(rootMetricName), qm.val)))
             ELSE Ok(makeInsightsCompliantEventType(oldName \o sep \o rootMetricName))

----------------------------------------------------------------------------
(* reduceJavaAgentYaml *)

attributeReducer(thisAttr, metricType) ==
    [MetricType |-> convertMetricType(metricType), MetricName |-> thisAttr]

\* the attributes of one metrics entry, split on ',' and trimmed, each with the
\* entry's type: the two inner loops of reduceJavaAgentYaml flattened
AttrsOf(thisMetric) ==
    LET inAttrs == Split(thisMetric.Attributes, ",")
    IN  [i \in 1..Len(inAttrs) |->
            [Attr |-> TrimSpace(inAttrs[i]), Type |-> thisMetric.Type]]

RECURSIVE AttrsOfAll(_)
AttrsOfAll(metrics) ==
    IF metrics = <<>> THEN <<>> ELSE AttrsOf(Head(metrics)) \o AttrsOfAll(Tail(metrics))

\* InsertIfAbsent without the presence test: the last metric group wins
InsertIfAbsent_Overwrite(dm, domain, query, thisAttr, metricType) ==
    [dm EXCEPT ![domain].BeansMap[query].AttributesMap =
         MapPut(dm[domain].BeansMap[query].AttributesMap, thisAttr,
                attributeReducer(thisAttr, metricType))]

\* thisBean != nil: the attribute is added only when the bean does not hold it
InsertIfAbsent(dm, domain, query, thisAttr, metricType) ==
    LET attrs == dm[domain].BeansMap[query].AttributesMap
    IN  IF thisAttr \in DOMAIN attrs THEN dm
        ELSE [dm EXCEPT ![domain].BeansMap[query].AttributesMap =
                  MapPut(attrs, thisAttr, attributeReducer(thisAttr, metricType))]

\* a new bean holding its first attribute
NewBean(thisAttr, metricType) ==
    [AttributesMap |-> MapPut(EmptyMap, thisAttr, attributeReducer(thisAttr, metricType))]

\* thisBean == nil and thisDomain == nil: a new domain with its event type and
\* the new bean
NewDomain(dm, domain, query, outEventType, thisAttr, metricType) ==
    MapPut(dm, domain,
           [EventType |-> outEventType,
            BeansMap |-> MapPut(EmptyMap, query, NewBean(thisAttr, metricType))])

\* AddBean giving the domain a fresh BeansMap, as NewDomain does: the domain's
\* other beans are lost
AddBean_Replace(dm, domain, query, thisAttr, metricType) ==
    [dm EXCEPT ![domain].BeansMap =
         MapPut(EmptyMap, query, NewBean(thisAttr, metricType))]

\* thisBean == nil and thisDomain != nil: the new bean joins the domain
AddBean(dm, domain, query, thisAttr, metricType) ==
    [dm EXCEPT ![domain].BeansMap =
         MapPut(dm[domain].BeansMap, query, NewBean(thisAttr, metricType))]

\* the attribute loops of one jmxObject.  haveDomain and haveBean are
\* thisDomain != nil and thisBean != nil; thisDomain is never assigned in the
\* loops, thisBean is assigned when the bean is made.  domainAndQuery[1] of the
\* code is domainAndQuery[2] here (sequences start at 1).
RECURSIVE ReduceAttrs(_, _, _, _, _, _, _)
ReduceAttrs(dm, name, rootMetricName, domainAndQuery, attrs, haveDomain, haveBean) ==
    IF attrs = <<>> THEN Ok(dm)
    ELSE LET a == Head(attrs)
         IN  IF haveBean
             THEN ReduceAttrs(
                      InsertIfAbsent(dm, domainAndQuery[1], domainAndQuery[2],
                                     a.Attr, a.Type),
                      name, rootMetricName, domainAndQuery, Tail(attrs),
                      haveDomain, TRUE)
             ELSE IF ~haveDomain
             THEN IF Len(domainAndQuery) < 2 THEN Panic
                  ELSE LET outEventType ==
                               getEventName(name, rootMetricName, domainAndQuery[2])
                       IN  IF ~outEventType.ok THEN Panic
                           ELSE ReduceAttrs(
                                    NewDomain(dm, domainAndQuery[1], domainAndQuery[2],
                                              outEventType.val, a.Attr, a.Type),
                                    name, rootMetricName, domainAndQuery, Tail(attrs),
                                    FALSE, TRUE)
             ELSE ReduceAttrs(
                      AddBean(dm, domainAndQuery[1], domainAndQuery[2], a.Attr, a.Type),
                      name, rootMetricName, domainAndQuery, Tail(attrs),
                      TRUE, TRUE)

\* ReduceJmxObject without the lookup of the domain and the bean: every
\* declaration with a metric group makes its domain anew
ReduceJmxObject_NoLookup(dm, name, jmxObject) ==
    ReduceAttrs(dm, name, jmxObject.RootMetricName, Split(jmxObject.ObjectName, ":"),
                AttrsOfAll(jmxObject.Metrics), FALSE, FALSE)

\* ReduceJmxObject reading domainAndQuery[1] once, before the loops
ReduceJmxObject_EagerIndex(dm, name, jmxObject) ==
    LET domainAndQuery == Split(jmxObject.ObjectName, ":")
        haveDomain == domainAndQuery[1] \in DOMAIN dm
    IN  IF Len(domainAndQuery) < 2 THEN Panic
        ELSE ReduceAttrs(dm, name, jmxObject.RootMetricName, domainAndQuery,
                         AttrsOfAll(jmxObject.Metrics), haveDomain,
                         haveDomain /\ domainAndQuery[2] \in
                                           DOMAIN dm[domainAndQuery[1]].BeansMap)

\* one iteration of the loop over m.JMX
ReduceJmxObject(dm, name, jmxObject) ==
    LET domainAndQuery == Split(jmxObject.ObjectName, ":")
        haveDomain == domainAndQuery[1] \in DOMAIN dm
    IN  IF haveDomain /\ Len(domainAndQuery) < 2 THEN Panic
        ELSE ReduceAttrs(dm, name, jmxObject.RootMetricName, domainAndQuery,
                         AttrsOfAll(jmxObject.Metrics), haveDomain,
                         haveDomain /\ domainAndQuery[2] \in
                                           DOMAIN dm[domainAndQuery[1]].BeansMap)

RECURSIVE ReduceFrom(_, _, _)
ReduceFrom(dm, name, jmx) ==
    IF jmx = <<>> THEN Ok(dm)
    ELSE LET r == ReduceJmxObject(dm, name, Head(jmx))
         IN  IF ~r.ok THEN Panic ELSE ReduceFrom(r.val, name, Tail(jmx))

\* the whole function
reduceJavaAgentYaml(def) == ReduceFrom(EmptyMap, def.Name, def.JMX)

----------------------------------------------------------------------------
(* buildCollectionDefinition, parseJavaAgentJmxDefinition *)

\* the orders in which a range over a Go map may visit the keys S
Perms(S) ==
    {p \in [1..Cardinality(S) -> S] : \A i, j \in DOMAIN p : i # j => p[i] # p[j]}

\* the attribute lists the innermost range can build for one bean
AttributeLists(beanContents) ==
    LET am == beanContents.AttributesMap
    IN  {[i \in DOMAIN p |-> [Attr |-> p[i], MetricType |-> am[p[i]].MetricType,
                              MetricName |-> am[p[i]].MetricName]] : p \in Perms(DOMAIN am)}

\* the bean lists the middle range can build for one domain
BeanLists(domainContents) ==
    LET bm == domainContents.BeansMap
        outs == UNION {{[Query |-> q, Attributes |-> al] : al \in AttributeLists(bm[q])} :
                       q \in DOMAIN bm}
    IN  UNION {{s \in [DOMAIN p -> outs] : \A i \in DOMAIN p : s[i].Query = p[i]} :
               p \in Perms(DOMAIN bm)}

\* every slice buildCollectionDefinition can return for dr: one per iteration
\* order of the three nested maps
buildCollectionDefinition(dr) ==
    LET outs == UNION {{[Domain |-> d, EventType |-> dr[d].EventType, Beans |-> bl] :
                        bl \in BeanLists(dr[d])} : d \in DOMAIN dr}
    IN  UNION {{s \in [DOMAIN p -> outs] : \A i \in DOMAIN p : s[i].Domain = p[i]} :
               p \in Perms(DOMAIN dr)}

\* the attributeOutput list of one metrics entry
SimpleAttrs(thisMetric) ==
    LET as == AttrsOf(thisMetric)
    IN  [i \in DOMAIN as |-> [Attr |-> as[i].Attr,
                              MetricType |-> convertMetricType(as[i].Type),
                              MetricName |-> as[i].Attr]]

\* one jmxObject of the simple parse: domainAndQuery[1] is read for every
\* metrics entry and for the event name
SimpleDomain(name, jmxObject) ==
    LET domainAndQuery == Split(jmxObject.ObjectName, ":")
    IN  IF Len(domainAndQuery) < 2 THEN Panic
        ELSE LET outEventType ==
                     getEventName(name, jmxObject.RootMetricName, domainAndQuery[2])
             IN  IF ~outEventType.ok THEN Panic
                 ELSE Ok([Domain |-> domainAndQuery[1],
                          EventType |-> outEventType.val,
                          Beans |-> [i \in DOMAIN jmxObject.Metrics |->
                                        [Query |-> domainAndQuery[2],
                                         Attributes |-> SimpleAttrs(jmxObject.Metrics[i])]]])

RECURSIVE SimpleFrom(_, _, _)
SimpleFrom(domains, name, jmx) ==
    IF jmx = <<>> THEN Ok(domains)
    ELSE LET r == SimpleDomain(name, Head(jmx))
         IN  IF ~r.ok THEN Panic ELSE SimpleFrom(Append(domains, r.val), name, Tail(jmx))

parseJavaAgentJmxDefinition(def) == SimpleFrom(<<>>, def.Name, def.JMX)

----------------------------------------------------------------------------
(* Inputs *)

\* longest m.JMX the reduction is run on
MaxDecls == 3
\* most entries of the comma-separated file list
MaxFiles == 2

Seqs(S, n) == UNION {[1..k -> S] : k \in 0..n}

Metric(attributes, type) == [Attributes |-> attributes, Type |-> type]
Jmx(objectName, rootMetricName, metrics) ==
    [ObjectName |-> objectName, RootMetricName |-> rootMetricName, Metrics |-> metrics]

ObjDKV == <<"d", ":", "k", "=", "v">>

\* d:k=v, no template, "c" simple
DeclCount == Jmx(ObjDKV, <<>>, <<Metric(<<"c">>, Simple)>>)
\* d:k=v, template T, "c, e" monotonically_increasing
DeclCountErrors ==
    Jmx(ObjDKV, <<"T">>, <<Metric(<<"c", ",", " ", "e">>, MonotonicallyIncreasing)>>)
\* d:k=v, template {k}, no metrics
DeclNoMetrics == Jmx(ObjDKV, <<"{", "k", "}">>, <<>>)
\* d (no colon), no metrics
DeclBareEmpty == Jmx(<<"d">>, <<>>, <<>>)
\* d (no colon), "c" simple
DeclBare == Jmx(<<"d">>, <<>>, <<Metric(<<"c">>, Simple)>>)
\* d:k=v:w (two colons), template {k}, "e" monotonically_increasing
DeclTwoColons ==
    Jmx(ObjDKV \o <<":", "w">>, <<"{", "k", "}">>,
        <<Metric(<<"e">>, MonotonicallyIncreasing)>>)
\* e:k=v, template P{k}, " c " of an unknown type, then "c" monotonically_increasing
DeclTwoGroups ==
    Jmx(<<"e", ":", "k", "=", "v">>, <<"P", "{", "k", "}">>,
        <<Metric(<<" ", "c", " ">>, <<"x">>), Metric(<<"c">>, MonotonicallyIncreasing)>>)
\* e:k (a pair with no '='), template {k}, "c" simple
DeclNoEquals == Jmx(<<"e", ":", "k">>, <<"{", "k", "}">>, <<Metric(<<"c">>, Simple)>>)
\* d:j=u, "e ,c" monotonically_increasing with padding around the type
DeclOtherQuery ==
    Jmx(<<"d", ":", "j", "=", "u">>, <<>>,
        <<Metric(<<"e", " ", ",", "c">>, <<" ">> \o MonotonicallyIncreasing \o <<" ">>)>>)

Decls ==
    {DeclCount, DeclCountErrors, DeclNoMetrics, DeclBareEmpty, DeclBare, DeclTwoColons,
     DeclTwoGroups, DeclNoEquals, DeclOtherQuery}

AppNames == {<<>>, <<"A">>}

\* arguments of getEventName
OldNames == {<<>>, <<"A">>, <<"M", "y", " ", "A", "/", "N">>}
Templates ==
    {<<>>, <<"T">>, <<"P", "_", "{", "k", "}">>, <<"{", "m", "}">>,
     <<"{", "k", "}", "{", "j", "}">>, <<"a", " ", "b", "/", "{", "k", "}">>}
Queries ==
    {<<"k", "=", "v">>,
     <<"k", "=", "v", ",", "j", "=", "u">>,
     <<"k">>,
     <<"k", "=", "v", "=", "w">>,
     <<"k", "=", "{", "j", "}", ",", "j", "=", "u">>,
     <<"k", "=", "a", ",", "k", "=", "b">>}

\* files
PathA == <<"/", "a">>
PathB == <<"/", "b">>
PathNames == {PathA, PathB, <<"b">>}

RECURSIVE Join(_)
Join(paths) ==
    IF paths = <<>> THEN <<>>
    ELSE IF Len(paths) = 1 THEN paths[1]
    ELSE paths[1] \o <<",">> \o Join(Tail(paths))

FileLists == {Join(l) : l \in Seqs(PathNames, MaxFiles)}

NoDef == [Name |-> <<>>, JMX |-> <<>>]
Defs ==
    {[Name |-> <<"A">>, JMX |-> <<DeclCount, DeclCountErrors>>],
     [Name |-> <<>>, JMX |-> <<DeclBareEmpty>>],
     [Name |-> <<"A">>, JMX |-> <<DeclBare>>],
     [Name |-> <<"A">>, JMX |-> <<DeclCount, DeclTwoGroups>>]}
Contents ==
    {[readable |-> FALSE, def |-> NoDef]} \cup {[readable |-> TRUE, def |-> d] : d \in Defs}

----------------------------------------------------------------------------
(* getEventName on its own *)

NoCall == [called |-> FALSE, ok |-> FALSE, val |-> <<>>]
NoGen == [oldName |-> <<>>, rootMetricName |-> <<>>, query |-> <<>>]

ReduceIdle ==
    /\ m = NoDef
    /\ idx = 0
    /\ thisDomainMap = EmptyMap
    /\ status = "idle"

MainIdle ==
    /\ CollectionFiles = <<>>
    /\ fs = EmptyMap
    /\ pc = "idle"
    /\ fileIdx = 0
    /\ oldJmxFileDefinition = NoDef
    /\ newReduction = EmptyMap
    /\ newerCollection = <<>>
    /\ newCollection = <<>>
    /\ stdout = <<>>
    /\ exitCode = -1
    /\ loadLog = <<>>
    /\ marshalFailed = FALSE

ResolveInit ==
    /\ gen \in [oldName : OldNames, rootMetricName : Templates, query : Queries]
    /\ eventName = NoCall
    /\ ReduceIdle
    /\ MainIdle

CallGetEventName ==
    /\ ~eventName.called
    /\ eventName' = [called |-> TRUE] @@
                    getEventName(gen.oldName, gen.rootMetricName, gen.query)
    /\ UNCHANGED <<gen, reduceVars, mainVars>>

ResolveNext == CallGetEventName

SpecResolve == ResolveInit /\ [][ResolveNext]_vars

----------------------------------------------------------------------------
(* reduceJavaAgentYaml, one jmxObject per step *)

ReduceInit ==
    /\ m \in [Name : AppNames, JMX : Seqs(Decls, MaxDecls)]
    /\ idx = 0
    /\ thisDomainMap = EmptyMap
    /\ status = "running"
    /\ gen = NoGen
    /\ eventName = NoCall
    /\ MainIdle

\* an iteration that completes
ReduceStep ==
    /\ status = "running"
    /\ idx < Len(m.JMX)
    /\ LET r == ReduceJmxObject(thisDomainMap, m.Name, m.JMX[idx + 1])
       IN  /\ r.ok
           /\ thisDomainMap' = r.val
    /\ idx' = idx + 1
    /\ UNCHANGED <<m, status, resolveVars, mainVars>>

\* an iteration that ends in an index-out-of-range panic
ReducePanic ==
    /\ status = "running"
    /\ idx < Len(m.JMX)
    /\ ~ReduceJmxObject(thisDomainMap, m.Name, m.JMX[idx + 1]).ok
    /\ idx' = idx + 1
    /\ status' = "panicked"
    /\ UNCHANGED <<m, thisDomainMap, resolveVars, mainVars>>

\* return thisDomainMap, nil
ReduceReturn ==
    /\ status = "running"
    /\ idx = Len(m.JMX)
    /\ status' = "returned"
    /\ UNCHANGED <<m, idx, thisDomainMap, resolveVars, mainVars>>

ReduceNext == ReduceStep \/ ReducePanic \/ ReduceReturn

SpecReduce == ReduceInit /\ [][ReduceNext]_vars

----------------------------------------------------------------------------
(* main with ConvertFile == "true" *)

\* filepath.IsAbs on a Unix build
IsAbs(path) == HasPrefix(path, <<"/">>)

oldJmxFiles == Split(CollectionFiles, ",")
oldJmxFile == oldJmxFiles[fileIdx]

Init ==
    /\ CollectionFiles \in FileLists
    /\ fs \in [{PathA, PathB} -> Contents]
    /\ pc = "start"
    /\ fileIdx = 0
    /\ oldJmxFileDefinition = NoDef
    /\ newReduction = EmptyMap
    /\ newerCollection = <<>>
    /\ newCollection = <<>>
    /\ stdout = <<>>
    /\ exitCode = -1
    /\ loadLog = <<>>
    /\ marshalFailed = FALSE
    /\ gen = NoGen
    /\ eventName = NoCall
    /\ ReduceIdle

\* os.Exit(code), or the exit status 2 of a process that dies of a panic
Exit(code) ==
    /\ pc' = "exited"
    /\ exitCode' = code

\* "Must specify at least one collection file"
NoCollectionFiles ==
    /\ pc = "start"
    /\ CollectionFiles = <<>>
    /\ Exit(1)
    /\ UNCHANGED <<CollectionFiles, fs, fileIdx, oldJmxFileDefinition, newReduction,
                   newerCollection, newCollection, stdout, loadLog, marshalFailed,
                   resolveVars, reduceVars>>

\* the list is split and the loop entered
StartConvert ==
    /\ pc = "start"
    /\ CollectionFiles # <<>>
    /\ pc' = "checkAbs"
    /\ fileIdx' = 1
    /\ UNCHANGED <<CollectionFiles, fs, oldJmxFileDefinition, newReduction,
                   newerCollection, newCollection, stdout, exitCode, loadLog,
                   marshalFailed, resolveVars, reduceVars>>

CheckAbsOk ==
    /\ pc = "checkAbs"
    /\ IsAbs(oldJmxFile)
    /\ pc' = "parseYaml"
    /\ UNCHANGED <<CollectionFiles, fs, fileIdx, oldJmxFileDefinition, newReduction,
                   newerCollection, newCollection, stdout, exitCode, loadLog,
                   marshalFailed, resolveVars, reduceVars>>

CheckAbsFail ==
    /\ pc = "checkAbs"
    /\ ~IsAbs(oldJmxFile)
    /\ Exit(1)
    /\ UNCHANGED <<CollectionFiles, fs, fileIdx, oldJmxFileDefinition, newReduction,
                   newerCollection, newCollection, stdout, loadLog, marshalFailed,
                   resolveVars, reduceVars>>

\* parseJavaAgentYaml: the file is read and decoded, or an error comes back
Loadable(path) == path \in DOMAIN fs /\ fs[path].readable

ParseYamlOk ==
    /\ pc = "parseYaml"
    /\ Loadable(oldJmxFile)
    /\ loadLog' = Append(loadLog, fileIdx)
    /\ oldJmxFileDefinition' = fs[oldJmxFile].def
    /\ pc' = "reduce"
    /\ UNCHANGED <<CollectionFiles, fs, fileIdx, newReduction, newerCollection,
                   newCollection, stdout, exitCode, marshalFailed, resolveVars,
                   reduceVars>>

\* ParseYamlFail going on to the next file instead of leaving
ParseYamlFail_Continue ==
    /\ pc = "parseYaml"
    /\ ~Loadable(oldJmxFile)
    /\ loadLog' = Append(loadLog, fileIdx)
    /\ IF fileIdx < Len(oldJmxFiles)
       THEN /\ fileIdx' = fileIdx + 1
            /\ pc' = "checkAbs"
            /\ exitCode' = exitCode
       ELSE /\ fileIdx' = fileIdx
            /\ Exit(0)
    /\ UNCHANGED <<CollectionFiles, fs, oldJmxFileDefinition, newReduction,
                   newerCollection, newCollection, stdout, marshalFailed, resolveVars,
                   reduceVars>>

ParseYamlFail ==
    /\ pc = "parseYaml"
    /\ ~Loadable(oldJmxFile)
    /\ loadLog' = Append(loadLog, fileIdx)
    /\ Exit(1)
    /\ UNCHANGED <<CollectionFiles, fs, fileIdx, oldJmxFileDefinition, newReduction,
                   newerCollection, newCollection, stdout, marshalFailed, resolveVars,
                   reduceVars>>

ReduceOk ==
    /\ pc = "reduce"
    /\ LET r == reduceJavaAgentYaml(oldJmxFileDefinition)
       IN  /\ r.ok
           /\ newReduction' = r.val
    /\ pc' = "build"
    /\ UNCHANGED <<CollectionFiles, fs, fileIdx, oldJmxFileDefinition, newerCollection,
                   newCollection, stdout, exitCode, loadLog, marshalFailed,
                   resolveVars, reduceVars>>

\* reduceJavaAgentYaml panics: the process dies
ReduceCrash ==
    /\ pc = "reduce"
    /\ ~reduceJavaAgentYaml(oldJmxFileDefinition).ok
    /\ Exit(2)
    /\ UNCHANGED <<CollectionFiles, fs, fileIdx, oldJmxFileDefinition, newReduction,
                   newerCollection, newCollection, stdout, loadLog, marshalFailed,
                   resolveVars, reduceVars>>

Build ==
    /\ pc = "build"
    /\ newerCollection' \in buildCollectionDefinition(newReduction)
    /\ pc' = "output"
    /\ UNCHANGED <<CollectionFiles, fs, fileIdx, oldJmxFileDefinition, newReduction,
                   newCollection, stdout, exitCode, loadLog, marshalFailed,
                   resolveVars, reduceVars>>

\* outputOHIJmxFile(filename, d): yaml.Marshal gives the document or an error;
\* the error is printed and the (empty) bytes are printed after it; the
\* function returns nothing
outputOHIJmxFile(via, d, err) ==
    /\ stdout' = Append(stdout,
                        IF err
                        THEN [kind |-> "error", file |-> fileIdx, via |-> via,
                              collect |-> <<>>]
                        ELSE [kind |-> "document", file |-> fileIdx, via |-> via,
                              collect |-> d])
    /\ marshalFailed' = (marshalFailed \/ err)

OutputReduced ==
    /\ pc = "output"
    /\ \E err \in BOOLEAN : outputOHIJmxFile("reduce", newerCollection, err)
    /\ pc' = "parseSimple"
    /\ UNCHANGED <<CollectionFiles, fs, fileIdx, oldJmxFileDefinition, newReduction,
                   newerCollection, newCollection, exitCode, loadLog, resolveVars,
                   reduceVars>>

ParseSimpleOk ==
    /\ pc = "parseSimple"
    /\ LET r == parseJavaAgentJmxDefinition(oldJmxFileDefinition)
       IN  /\ r.ok
           /\ newCollection' = r.val
    /\ pc' = "outputSimple"
    /\ UNCHANGED <<CollectionFiles, fs, fileIdx, oldJmxFileDefinition, newReduction,
                   newerCollection, stdout, exitCode, loadLog, marshalFailed,
                   resolveVars, reduceVars>>

\* parseJavaAgentJmxDefinition panics: the process dies
ParseSimpleCrash ==
    /\ pc = "parseSimple"
    /\ ~parseJavaAgentJmxDefinition(oldJmxFileDefinition).ok
    /\ Exit(2)
    /\ UNCHANGED <<CollectionFiles, fs, fileIdx, oldJmxFileDefinition, newReduction,
                   newerCollection, newCollection, stdout, loadLog, marshalFailed,
                   resolveVars, reduceVars>>

\* the second outputOHIJmxFile, the err check that follows it (err is nil
\* there) and the loop's step
OutputSimpleNext ==
    /\ pc = "outputSimple"
    /\ fileIdx < Len(oldJmxFiles)
    /\ \E err \in BOOLEAN : outputOHIJmxFile("parse", newCollection, err)
    /\ fileIdx' = fileIdx + 1
    /\ pc' = "checkAbs"
    /\ UNCHANGED <<CollectionFiles, fs, oldJmxFileDefinition, newReduction,
                   newerCollection, newCollection, exitCode, loadLog, resolveVars,
                   reduceVars>>

\* the same for the last file, then os.Exit(0)
OutputSimpleLast ==
    /\ pc = "outputSimple"
    /\ fileIdx = Len(oldJmxFiles)
    /\ \E err \in BOOLEAN : outputOHIJmxFile("parse", newCollection, err)
    /\ Exit(0)
    /\ UNCHANGED <<CollectionFiles, fs, fileIdx, oldJmxFileDefinition, newReduction,
                   newerCollection, newCollection, loadLog, resolveVars, reduceVars>>

Next ==
    \/ NoCollectionFiles
    \/ StartConvert
    \/ CheckAbsOk
    \/ CheckAbsFail
    \/ ParseYamlOk
    \/ ParseYamlFail
    \/ ReduceOk
    \/ ReduceCrash
    \/ Build
    \/ OutputReduced
    \/ ParseSimpleOk
    \/ ParseSimpleCrash
    \/ OutputSimpleNext
    \/ OutputSimpleLast

Spec == Init /\ [][Next]_vars

----------------------------------------------------------------------------
(* Claims about getEventName (SpecResolve) *)

\* key and value of a pair around its first '='; a pair with no '=' has no key
PairHasKey(pair) == IndexOf(pair, "=") # 0
PairKey(pair) == SubSeq(pair, 1, IndexOf(pair, "=") - 1)
PairVal(pair) == SubSeq(pair, IndexOf(pair, "=") + 1, Len(pair))

\* the query as a key -> value mapping; of two pairs with one key the later counts
StatedQueryMap(query) ==
    LET pairs == Split(query, ",")
        keyed == {i \in 1..Len(pairs) : PairHasKey(pairs[i])}
        last(k) == CHOOSE i \in keyed : /\ PairKey(pairs[i]) = k
                                        /\ \A j \in keyed : PairKey(pairs[j]) = k => j <= i
    IN  [k \in {PairKey(pairs[i]) : i \in keyed} |-> PairVal(pairs[last(k)])]

\* the template with every placeholder that names a key replaced by the key's
\* value, the others left as they are
RECURSIVE StatedSubstitution(_, _)
StatedSubstitution(template, qm) ==
    IF template = <<>> THEN <<>>
    ELSE LET n == MatchAt(template)
         IN  IF n > 0 /\ SubSeq(template, 2, n - 1) \in DOMAIN qm
             THEN qm[SubSeq(template, 2, n - 1)] \o
                  StatedSubstitution(SubSeq(template, n + 1, Len(template)), qm)
             ELSE <<template[1]>> \o StatedSubstitution(Tail(template), qm)

StatedSanitize(str) ==
    [i \in 1..Len(str) |-> IF str[i] = " " THEN "_" ELSE IF str[i] = "/" THEN ":" ELSE str[i]]

StatedEventName(oldName, template, query) ==
    StatedSanitize((IF oldName = <<>> THEN defaultEventType ELSE oldName) \o <<"_">> \o
                   StatedSubstitution(template, StatedQueryMap(query)))

\* C5: for every application name, non-empty template and query, getEventName
\* returns, without failing, sanitize(base + "_" + T), T being the template with
\* the placeholders that name a key of the query replaced by the key's value
\* (key and value around the pair's first '=').
C5_EventNameAsStated ==
    (eventName.called /\ gen.rootMetricName # <<>>) =>
        /\ eventName.ok
        /\ eventName.val = StatedEventName(gen.oldName, gen.rootMetricName, gen.query)

----------------------------------------------------------------------------
(* Claims about reduceJavaAgentYaml (SpecReduce) *)

HasColon(o) == IndexOf(o, ":") # 0
\* the text before the first ':' (all of it when there is none)
BeforeColon(o) == IF HasColon(o) THEN SubSeq(o, 1, IndexOf(o, ":") - 1) ELSE o
\* the whole text after the first ':'
AfterColon(o) == SubSeq(o, IndexOf(o, ":") + 1, Len(o))
\* the text between the first ':' and the second (or the end)
SecondSegment(o) == BeforeColon(AfterColon(o))

Decl(i) == m.JMX[i]
DomainOf(i) == BeforeColon(Decl(i).ObjectName)
HasMetrics(i) == Decl(i).Metrics # <<>>
Processed == 1..idx
Completed == status \in {"running", "returned"}

\* the trimmed attribute names of metric group g of declaration i
NamesOf(i, g) ==
    LET parts == Split(Decl(i).Metrics[g].Attributes, ",")
    IN  {TrimSpace(parts[k]) : k \in 1..Len(parts)}

\* C4: an object_name with a ':' is split on the first ':' only: the domain key
\* is the text before it and the query key is the whole text after it, further
\* ':' included.
C4_SplitOnFirstColonOnly ==
    Completed =>
        \A i \in Processed :
            (HasColon(Decl(i).ObjectName) /\ HasMetrics(i)) =>
                /\ DomainOf(i) \in DOMAIN thisDomainMap
                /\ AfterColon(Decl(i).ObjectName) \in
                       DOMAIN thisDomainMap[DomainOf(i)].BeansMap

\* the processed declarations whose object_name is <d>:<...>
OfDomain(d) == {i \in Processed : HasColon(Decl(i).ObjectName) /\ DomainOf(i) = d}
\* the first of them
FirstOfDomain(d) == CHOOSE i \in OfDomain(d) : \A j \in OfDomain(d) : i <= j
\* the first processed declaration of domain d that has a metric group
FirstWithMetrics(d) ==
    CHOOSE i \in Processed :
        /\ DomainOf(i) = d /\ HasMetrics(i)
        /\ \A j \in Processed : (DomainOf(j) = d /\ HasMetrics(j)) => i <= j
\* the event name the resolver gives for declaration i, with the query key the
\* reduction takes from its object_name
EventNameOf(i) ==
    getEventName(m.Name, Decl(i).RootMetricName, SecondSegment(Decl(i).ObjectName)).val

\* C1 as stated: the eventType of a domain is the event name of the first
\* declaration of that domain, also when that declaration has no metric group.
C1_EventTypeOfFirstDeclaration ==
    Completed =>
        \A d \in DOMAIN thisDomainMap :
            thisDomainMap[d].EventType = EventNameOf(FirstOfDomain(d))

\* C1 amended: the domains of the map are those of the processed declarations
\* that have a metric group, and the eventType of each is the event name of the
\* first such declaration of the domain, whatever follows it.
C1_EventTypeOfFirstWithMetrics ==
    Completed =>
        /\ DOMAIN thisDomainMap = {DomainOf(i) : i \in {j \in Processed : HasMetrics(j)}}
        /\ \A d \in DOMAIN thisDomainMap :
               thisDomainMap[d].EventType = EventNameOf(FirstWithMetrics(d))

\* a returned reduction whose first declaration of a domain has no metric group
\* and a later one of the same domain, with another template, has
C1_Witness ==
    /\ status = "returned"
    /\ \E i, j \in Processed :
           /\ i < j
           /\ HasColon(Decl(i).ObjectName)
           /\ DomainOf(i) = DomainOf(j)
           /\ FirstOfDomain(DomainOf(i)) = i
           /\ ~HasMetrics(i)
           /\ HasMetrics(j)
           /\ EventNameOf(i) # EventNameOf(j)
           /\ thisDomainMap[DomainOf(j)].EventType = EventNameOf(j)

\* the metric groups (declaration, group) that mention attribute a for domain d
\* and query key q
Mentions(d, q, a) ==
    {p \in UNION {{<<i, g>> : g \in DOMAIN Decl(i).Metrics} : i \in Processed} :
        /\ HasColon(Decl(p[1]).ObjectName)
        /\ DomainOf(p[1]) = d
        /\ SecondSegment(Decl(p[1]).ObjectName) = q
        /\ a \in NamesOf(p[1], p[2])}

\* declaration order, then metric-group order
Before(p, r) == p[1] < r[1] \/ (p[1] = r[1] /\ p[2] <= r[2])

FirstMention(d, q, a) ==
    CHOOSE p \in Mentions(d, q, a) : \A r \in Mentions(d, q, a) : Before(p, r)

KindOf(p) == convertMetricType(Decl(p[1]).Metrics[p[2]].Type)

\* C2: for every recorded (domain, query, attribute) the MetricType is
\* convertMetricType of the kind of the first metric group, in declaration
\* order and then metric-group order, that mentions the attribute for that
\* domain and query; no later group or declaration overwrites it.
C2_FirstWriteWinsKind ==
    Completed =>
        \A d \in DOMAIN thisDomainMap :
            \A q \in DOMAIN thisDomainMap[d].BeansMap :
                \A a \in DOMAIN thisDomainMap[d].BeansMap[q].AttributesMap :
                    /\ Mentions(d, q, a) # {}
                    /\ thisDomainMap[d].BeansMap[q].AttributesMap[a].MetricType =
                           KindOf(FirstMention(d, q, a))

\* a returned reduction in which an attribute is mentioned by two metric groups
\* of different kinds, the first one not the delta
C2_Witness ==
    /\ status = "returned"
    /\ \E d \in DOMAIN thisDomainMap :
           \E q \in DOMAIN thisDomainMap[d].BeansMap :
               \E a \in DOMAIN thisDomainMap[d].BeansMap[q].AttributesMap :
                   \E r \in Mentions(d, q, a) :
                       /\ KindOf(r) # KindOf(FirstMention(d, q, a))
                       /\ thisDomainMap[d].BeansMap[q].AttributesMap[a].MetricType = "gauge"

\* the (domain, query key) pairs of the processed declarations that have a
\* metric group
Groups ==
    {<<DomainOf(i), SecondSegment(Decl(i).ObjectName)>> :
        i \in {j \in Processed : HasColon(Decl(j).ObjectName) /\ HasMetrics(j)}}

\* the (domain, query key) pairs of the map
MapGroups ==
    UNION {{<<d, q>> : q \in DOMAIN thisDomainMap[d].BeansMap} : d \in DOMAIN thisDomainMap}

\* the declarations of domain d and query key q
OfGroup(d, q) ==
    {i \in Processed : /\ HasColon(Decl(i).ObjectName)
                       /\ DomainOf(i) = d
                       /\ SecondSegment(Decl(i).ObjectName) = q}

\* the union of the trimmed attribute names of those declarations
NamesOfGroup(d, q) ==
    UNION {UNION {NamesOf(i, g) : g \in DOMAIN Decl(i).Metrics} : i \in OfGroup(d, q)}

\* C3: the groups of the map are the domain+query pairs declared with a metric
\* group, and the key set of each group's AttributesMap is exactly the union of
\* the trimmed attribute names of the declarations of that domain and query;
\* each entry is named after its key.
C3_AttributeSetIsUnion ==
    Completed =>
        /\ MapGroups = Groups
        /\ \A g \in Groups :
               LET am == thisDomainMap[g[1]].BeansMap[g[2]].AttributesMap
               IN  /\ DOMAIN am = NamesOfGroup(g[1], g[2])
                   /\ \A a \in DOMAIN am : am[a].MetricName = a

\* a returned reduction with a group fed by two declarations, one of which names
\* an attribute with blanks around it, and a domain holding two groups
C3_Witness ==
    /\ status = "returned"
    /\ \E g \in Groups :
           /\ Cardinality(OfGroup(g[1], g[2])) >= 2
           /\ Cardinality(NamesOfGroup(g[1], g[2])) >= 2
           /\ \E i \in OfGroup(g[1], g[2]) :
                  \E k \in DOMAIN Decl(i).Metrics :
                      LET parts == Split(Decl(i).Metrics[k].Attributes, ",")
                      IN  \E n \in DOMAIN parts : TrimSpace(parts[n]) # parts[n]
    /\ \E d \in DOMAIN thisDomainMap : Cardinality(DOMAIN thisDomainMap[d].BeansMap) >= 2

\* declaration i names no ':'
NoColon(i) == ~HasColon(Decl(i).ObjectName)
\* a group of i's domain exists when the loop reaches i
DomainMadeBefore(i) == \E j \in 1..(i - 1) : DomainOf(j) = DomainOf(i) /\ HasMetrics(j)
\* the out-of-range read of domainAndQuery[1] happens for i
ColonFault(i) == NoColon(i) /\ (HasMetrics(i) \/ DomainMadeBefore(i))
\* i makes its domain and the resolver fails on a pair with no '='
ResolverFault(i) ==
    /\ ~NoColon(i) /\ HasMetrics(i) /\ ~DomainMadeBefore(i)
    /\ ~getEventName(m.Name, Decl(i).RootMetricName,
                     SecondSegment(Decl(i).ObjectName)).ok

\* C10 as stated: a list with an object_name without ':' never returns a model,
\* wherever the declaration stands and however many metric groups it has.
C10_NoColonAlwaysFails ==
    status = "returned" => \A i \in 1..Len(m.JMX) : ~NoColon(i)

\* C10 amended: the reduction fails exactly when it reaches a declaration
\* without ':' that has a metric group or whose domain already has a group (or
\* one whose event name cannot be resolved); a declaration without ':' that has
\* no metric group and no group for its domain is passed over.
C10_NoColonFailsWhenRead ==
    (status = "panicked") <=> (\E i \in Processed : ColonFault(i) \/ ResolverFault(i))

\* the reduction has failed on a declaration without ':' and without metric
\* groups, whose domain an earlier declaration had made
C10_Witness ==
    /\ status = "panicked"
    /\ NoColon(idx)
    /\ ~HasMetrics(idx)
    /\ DomainMadeBefore(idx)
    /\ \A i \in 1..(idx - 1) : ~ColonFault(i) /\ ~ResolverFault(i)

----------------------------------------------------------------------------
(* Claims about main in convert mode (Spec) *)

Files == 1..Len(oldJmxFiles)
\* the documents printed for file f
DocumentsOf(f) ==
    {i \in DOMAIN stdout : stdout[i].file = f /\ stdout[i].kind = "document"}
\* everything printed for file f
OutputsOf(f) == {i \in DOMAIN stdout : stdout[i].file = f}

\* C6: two runs of reduceJavaAgentYaml and buildCollectionDefinition on the
\* same legacy model give the same ordered lists, so the same document.
C6_SameModelSameDocument ==
    \A i, j \in DOMAIN stdout :
        (/\ stdout[i].kind = "document" /\ stdout[j].kind = "document"
         /\ stdout[i].via = "reduce" /\ stdout[j].via = "reduce"
         /\ fs[oldJmxFiles[stdout[i].file]].def = fs[oldJmxFiles[stdout[j].file]].def)
            => stdout[i].collect = stdout[j].collect

\* file f has gone through every step of the loop body
Converted(f) == f < fileIdx \/ (f = fileIdx /\ pc = "exited" /\ exitCode = 0)
\* the run has ended in file f
FailedIn(f) == f = fileIdx /\ pc = "exited" /\ exitCode # 0

\* C7: for each input file the run prints exactly one complete document when
\* every step for the file succeeds and none when a step fails; never a
\* document for a file whose processing then fails, never two for one file.
C7_OneDocumentOrNone ==
    \A f \in Files :
        /\ Cardinality(DocumentsOf(f)) <= 1
        /\ Converted(f) => Cardinality(DocumentsOf(f)) = 1
        /\ FailedIn(f) => DocumentsOf(f) = {}

\* C9: when yaml.Marshal fails in outputOHIJmxFile the failure ends the file in
\* an error outcome: the run does not exit with status 0.
C9_EncodeErrorIsFatal ==
    (pc = "exited" /\ marshalFailed) => exitCode # 0

\* what the files on disk and the list decide: file f cannot be converted
FileFails(f) ==
    \/ ~IsAbs(oldJmxFiles[f])
    \/ ~Loadable(oldJmxFiles[f])
    \/ ~reduceJavaAgentYaml(fs[oldJmxFiles[f]].def).ok
    \/ ~parseJavaAgentJmxDefinition(fs[oldJmxFiles[f]].def).ok

IsPrefix(s, t) == Len(s) <= Len(t) /\ SubSeq(t, 1, Len(s)) = s

\* files are loaded in list order, each once
LoadedInOrder ==
    /\ \A k \in DOMAIN loadLog : loadLog[k] = k
    /\ Len(loadLog) \in {fileIdx - 1, fileIdx}
    /\ pc \in {"reduce", "build", "output", "parseSimple", "outputSimple"}
           => Len(loadLog) = fileIdx

\* a file is started only when the one before it is fully printed, and
\* nothing is printed for a file not yet reached
PrintedInOrder ==
    /\ \A i, j \in DOMAIN stdout : i <= j => stdout[i].file <= stdout[j].file
    /\ \A f \in Files :
           /\ f < fileIdx =>
                  {stdout[i].via : i \in OutputsOf(f)} = {"reduce", "parse"}
           /\ f > fileIdx => OutputsOf(f) = {}
           /\ Cardinality(OutputsOf(f)) <= 2

\* the run never goes past a file that fails, and it ends with status 0 only
\* when every file was converted
FailFast ==
    /\ \A f \in Files : (pc # "start" /\ FileFails(f)) => fileIdx <= f
    /\ pc = "exited" =>
           IF CollectionFiles = <<>> \/ \E f \in Files : FileFails(f)
           THEN exitCode \in {1, 2}
           ELSE exitCode = 0 /\ fileIdx = Len(oldJmxFiles) /\ Len(loadLog) = fileIdx
    /\ (pc = "exited" /\ CollectionFiles # <<>> /\ exitCode # 0) =>
           /\ FileFails(fileIdx)
           /\ \A f \in Files : f > fileIdx => f \notin {loadLog[k] : k \in DOMAIN loadLog}

\* C8: the batch is sequential and fail-fast: files are taken in list order, a
\* file is started only after the one before it is fully printed, a failing
\* file ends the run with a failure status before any later file is loaded or
\* printed, no file is loaded twice, and what was printed stays printed.
C8_SequentialFailFast ==
    /\ [](LoadedInOrder /\ PrintedInOrder /\ FailFast)
    /\ [][/\ IsPrefix(stdout, stdout')
          /\ IsPrefix(loadLog, loadLog')
          /\ pc = "exited" => UNCHANGED vars]_vars

\* the run has ended in failure on a file it had loaded, with a file after it in
\* the list that could have been converted
C8_Witness ==
    /\ pc = "exited"
    /\ exitCode # 0
    /\ Len(loadLog) = fileIdx
    /\ fileIdx < Len(oldJmxFiles)
    /\ ~FileFails(fileIdx + 1)

====
